---- MODULE Spec2Model ----
(***************************************************************************)
(* ASEAN Carbon Integration Simulator (app.py): the carbon-liability       *)
(* engine, the regional comparison loop and the two price-trajectory       *)
(* simulators, modelled as operations a script run invokes.                *)
(*                                                                         *)
(* Python floats are modelled as exact rationals whose numerator and       *)
(* denominator are arbitrary-precision naturals (sequences of base-10000   *)
(* limbs, least significant first), so the arithmetic of the source is     *)
(* reproduced without rounding and without overflow.                       *)
(***************************************************************************)
EXTENDS Integers, Sequences, FiniteSets, TLC

(***************************************************************************)
(* Bounds of the model.                                                    *)
(***************************************************************************)
\* Largest horizon (years / analysis_years) a call is made with.
MaxYears == 3

(***************************************************************************)
(* Arbitrary-precision naturals.                                           *)
(***************************************************************************)
Base == 100 * 100

RECURSIVE BN(_)
BN(k) == IF k = 0 THEN <<>> ELSE <<k % Base>> \o BN(k \div Base)

RECURSIVE BAddC(_, _, _)
BAddC(a, b, c) ==
    IF a = <<>> /\ b = <<>>
    THEN (IF c = 0 THEN <<>> ELSE <<c>>)
    ELSE LET x == IF a = <<>> THEN 0 ELSE Head(a)
             y == IF b = <<>> THEN 0 ELSE Head(b)
             s == x + y + c
         IN  <<s % Base>> \o BAddC(IF a = <<>> THEN a ELSE Tail(a),
                                   IF b = <<>> THEN b ELSE Tail(b),
                                   s \div Base)

BAdd(a, b) == BAddC(a, b, 0)

RECURSIVE BMulLimbC(_, _, _)
BMulLimbC(a, k, c) ==
    IF a = <<>>
    THEN (IF c = 0 THEN <<>> ELSE <<c>>)
    ELSE LET s == Head(a) * k + c
         IN  <<s % Base>> \o BMulLimbC(Tail(a), k, s \div Base)

BMulLimb(a, k) == IF k = 0 THEN <<>> ELSE BMulLimbC(a, k, 0)

BShift(a) == IF a = <<>> THEN <<>> ELSE <<0>> \o a

RECURSIVE BMul(_, _)
BMul(a, b) ==
    IF a = <<>> \/ b = <<>>
    THEN <<>>
    ELSE BAdd(BMulLimb(a, Head(b)), BShift(BMul(a, Tail(b))))

\* -1, 0, 1 as a is below, equal to, above b.
RECURSIVE BCmpFrom(_, _, _)
BCmpFrom(a, b, i) ==
    IF i = 0 THEN 0
    ELSE IF a[i] < b[i] THEN -1
    ELSE IF a[i] > b[i] THEN 1
    ELSE BCmpFrom(a, b, i - 1)

BCmp(a, b) ==
    IF Len(a) < Len(b) THEN -1
    ELSE IF Len(a) > Len(b) THEN 1
    ELSE BCmpFrom(a, b, Len(a))

\* a - b for a >= b.
RECURSIVE BSubC(_, _, _)
BSubC(a, b, c) ==
    IF a = <<>> THEN <<>>
    ELSE LET y == IF b = <<>> THEN 0 ELSE Head(b)
             s == Head(a) - y - c
         IN  <<IF s < 0 THEN s + Base ELSE s>>
                \o BSubC(Tail(a), IF b = <<>> THEN b ELSE Tail(b), IF s < 0 THEN 1 ELSE 0)

RECURSIVE BTrim(_)
BTrim(a) ==
    IF a # <<>> /\ a[Len(a)] = 0 THEN BTrim(SubSeq(a, 1, Len(a) - 1)) ELSE a

BSub(a, b) == BTrim(BSubC(a, b, 0))

(***************************************************************************)
(* Rationals: sign, numerator and denominator (d > 0) over the naturals    *)
(* above.  Zero is never negative.                                         *)
(***************************************************************************)
\* Cancels common factors of the limb base and writes zero as 0/1; the
\* value is unchanged.
RECURSIVE RNorm(_)
RNorm(x) ==
    IF x.n = <<>> THEN [neg |-> FALSE, n |-> <<>>, d |-> <<1>>]
    ELSE IF x.d # <<>> /\ Head(x.n) = 0 /\ Head(x.d) = 0
    THEN RNorm([neg |-> x.neg, n |-> Tail(x.n), d |-> Tail(x.d)])
    ELSE x

\* p/q for integers p and q > 0
R(p, q) == [neg |-> p < 0, n |-> BN(IF p < 0 THEN -p ELSE p), d |-> BN(q)]
RInt(p) == R(p, 1)
Zero == RInt(0)
One == RInt(1)

IsZero(x) == x.n = <<>>
IsNeg(x) == x.neg
RNeg(x) == RNorm([neg |-> ~x.neg, n |-> x.n, d |-> x.d])

RMul(x, y) ==
    RNorm([neg |-> x.neg # y.neg, n |-> BMul(x.n, y.n), d |-> BMul(x.d, y.d)])

\* x / y for y # 0; the callers test IsZero(y) first, as Python raises there.
RDiv(x, y) ==
    RNorm([neg |-> x.neg # y.neg, n |-> BMul(x.n, y.d), d |-> BMul(x.d, y.n)])

\* Compares the magnitudes |x| and |y|: -1, 0, 1.
MagCmp(x, y) ==
    IF x.d = y.d THEN BCmp(x.n, y.n) ELSE BCmp(BMul(x.n, y.d), BMul(y.n, x.d))

RAdd(x, y) ==
    LET same == x.d = y.d
        xn == IF same THEN x.n ELSE BMul(x.n, y.d)
        yn == IF same THEN y.n ELSE BMul(y.n, x.d)
        dd == IF same THEN x.d ELSE BMul(x.d, y.d)
    IN  IF x.neg = y.neg
        THEN RNorm([neg |-> x.neg, n |-> BAdd(xn, yn), d |-> dd])
        ELSE IF BCmp(xn, yn) >= 0
             THEN RNorm([neg |-> x.neg, n |-> BSub(xn, yn), d |-> dd])
             ELSE RNorm([neg |-> y.neg, n |-> BSub(yn, xn), d |-> dd])

RSub(x, y) == RAdd(x, RNeg(y))

\* -1, 0, 1 as x is below, equal to, above y.
RCmp(x, y) ==
    IF x.neg /\ ~y.neg THEN -1
    ELSE IF ~x.neg /\ y.neg THEN 1
    ELSE IF x.neg THEN MagCmp(y, x)
    ELSE MagCmp(x, y)

REq(x, y) == RCmp(x, y) = 0
RLt(x, y) == RCmp(x, y) = -1
RLe(x, y) == RCmp(x, y) # 1

\* x ** k as Python computes it for k >= 0; x ** 0 is 1 also for x = 0.
RECURSIVE RPow(_, _)
RPow(x, k) == IF k = 0 THEN One ELSE RMul(x, RPow(x, k - 1))

(***************************************************************************)
(* Reference data (app.py, module level).  COUNTRY_DATA is a module-level  *)
(* dict, so it is program state; CountryOrder is its insertion order, the  *)
(* order every loop over it follows.                                       *)
(***************************************************************************)
VARIABLES COUNTRY_DATA, REFINERY_DATA, INTEGRATION_MILESTONES, INVESTMENT_REQUIREMENTS, pc, args, result, last_trajectories, previous, frames, cells

\* The module-level reference data
reference_data == <<COUNTRY_DATA, REFINERY_DATA, INTEGRATION_MILESTONES, INVESTMENT_REQUIREMENTS>>

vars == <<reference_data, pc, args, result, last_trajectories, previous, frames, cells>>

CountryOrder == <<"Singapore", "Thailand", "Indonesia", "Malaysia", "Vietnam">>

CountryNames == {CountryOrder[i] : i \in 1..Len(CountryOrder)}

\* govt_ownership is kept in hundredths (0.13 is 13).
InitialCountryData ==
    [c \in CountryNames |->
        CASE c = "Singapore" ->
               [capacity_kbpd |-> 1512, govt_ownership |-> 13,
                carbon_price_2024 |-> 59, carbon_price_2030 |-> 75,
                ets_launch_year |-> 2019, coverage_pct |-> 80]
          [] c = "Thailand" ->
               [capacity_kbpd |-> 1240, govt_ownership |-> 36,
                carbon_price_2024 |-> 35, carbon_price_2030 |-> 50,
                ets_launch_year |-> 2025, coverage_pct |-> 60]
          [] c = "Indonesia" ->
               [capacity_kbpd |-> 1050, govt_ownership |-> 100,
                carbon_price_2024 |-> 25, carbon_price_2030 |-> 35,
                ets_launch_year |-> 2023, coverage_pct |-> 50]
          [] c = "Malaysia" ->
               [capacity_kbpd |-> 612, govt_ownership |-> 80,
                carbon_price_2024 |-> 0, carbon_price_2030 |-> 15,
                ets_launch_year |-> 2030, coverage_pct |-> 30]
          [] c = "Vietnam" ->
               [capacity_kbpd |-> 346, govt_ownership |-> 71,
                carbon_price_2024 |-> 20, carbon_price_2030 |-> 40,
                ets_launch_year |-> 2028, coverage_pct |-> 45]]

(***************************************************************************)
(* Rates.  A rate is carried as an integer number of half percents, the    *)
(* step of the sliders: h stands for h/200 (6 is 3%, 10 is 5%, -200 is -1) *)
(* and 1 + rate is (200 + h)/200.                                          *)
(***************************************************************************)
RateDen == 2 * 100

OnePlus(h) == R(RateDen + h, RateDen)

(***************************************************************************)
(* calculate_carbon_liability (app.py 412-433).                            *)
(* The result is [status, value]: "ok" with the NPV in billions, or the    *)
(* exception the Python code raises.                                       *)
(***************************************************************************)
emissions_intensity == R(14, 100)

annual_emissions_of(data) ==
    LET daily_emissions == RMul(RInt(data.capacity_kbpd * 1000), emissions_intensity)
    IN  RDiv(RMul(daily_emissions, RInt(365)), RInt(1000000))

\* line 429: price = carbon_price * (1.03 ** year)
escalated_price(carbon_price, year) ==
    RMul(RInt(carbon_price), RPow(R(103, 100), year))

\* Variant: no discounting at all.
discount_divisor_undiscounted(discount_rate, year) == One

\* Variant: discounting starts with the first year (exponent year + 1).
discount_divisor_from_first_year(discount_rate, year) ==
    RPow(OnePlus(discount_rate), year + 1)

\* Variant: the cash flow is multiplied by the discount factor.
discount_divisor_inverted(discount_rate, year) ==
    RPow(RDiv(One, OnePlus(discount_rate)), year)

\* lines 431 and 827: (1 + discount_rate) ** year
discount_divisor(discount_rate, year) == RPow(OnePlus(discount_rate), year)

\* range(n): the number of iterations of "for year in range(n)"
range_len(n) == IF n > 0 THEN n ELSE 0

calculate_carbon_liability(country, carbon_price, years, discount_rate) ==
    LET data == COUNTRY_DATA[country]
        annual_emissions == annual_emissions_of(data)
        \* acc[k]: the loop's state after the iterations year = 0..k-1
        acc[k \in 0..range_len(years)] ==
            IF k = 0 THEN [status |-> "ok", npv |-> Zero]
            ELSE LET prev == acc[k - 1]
                     year == k - 1
                     price == escalated_price(carbon_price, year)
                     annual_cost == RMul(RMul(annual_emissions, price), RInt(1000000))
                     divisor == discount_divisor(discount_rate, year)
                 IN  IF prev.status # "ok" THEN prev
                     ELSE IF IsZero(divisor)
                          THEN [status |-> "ZeroDivisionError", npv |-> prev.npv]
                          ELSE [status |-> "ok",
                                npv |-> RAdd(prev.npv, RDiv(annual_cost, divisor))]
        final == acc[range_len(years)]
    IN  IF final.status = "ok"
        THEN [status |-> "ok", value |-> RDiv(final.npv, RInt(1000000000))]
        ELSE [status |-> final.status]

(***************************************************************************)
(* The liability calculator of tab 2 (app.py 815-838), as a function of    *)
(* the widget values.  price_escalation is in half percents, coverage in   *)
(* percent.                                                                *)
(***************************************************************************)
\* line 824: price = base_carbon_price * ((1 + price_escalation/100) ** year)
calculator_price(base_carbon_price, price_escalation, year) ==
    RMul(RInt(base_carbon_price), RPow(OnePlus(price_escalation), year))

\* Variant: the coverage is not applied.
calculator_annual_cost_uncovered(annual_emissions_mt, coverage, price) ==
    RMul(RMul(annual_emissions_mt, price), RInt(1000000))

\* lines 825-826: the nominal cost of one year, in dollars
calculator_annual_cost(annual_emissions_mt, coverage, price) ==
    LET covered_emissions == RMul(annual_emissions_mt, R(coverage, 100))
    IN  RMul(RMul(covered_emissions, price), RInt(1000000))

\* line 827: discounted_cost = annual_cost / ((1 + discount_rate) ** year)
calculator_discounted_cost(annual_cost, discount_rate, year) ==
    RDiv(annual_cost, discount_divisor(discount_rate, year))

\* Variant: assignment instead of accumulation.
npv_accumulate_overwrite(npv_liability, discounted_cost) == discounted_cost

\* line 828: npv_liability += discounted_cost
npv_accumulate(npv_liability, discounted_cost) == RAdd(npv_liability, discounted_cost)

liability_calculator(selected_country, base_carbon_price, price_escalation, coverage, analysis_years, discount_rate) ==
    LET country_data == COUNTRY_DATA[selected_country]
        annual_emissions_mt == annual_emissions_of(country_data)
        \* one pass of the loop body from the state prev of the loop
        body(prev, year) ==
            LET price == calculator_price(base_carbon_price, price_escalation, year)
                annual_cost == calculator_annual_cost(annual_emissions_mt, coverage, price)
                divisor == discount_divisor(discount_rate, year)
                discounted_cost == calculator_discounted_cost(annual_cost, discount_rate, year)
            IN  IF prev.status # "ok" THEN prev
                ELSE IF IsZero(divisor)
                     THEN [prev EXCEPT !.status = "ZeroDivisionError"]
                     ELSE [status |-> "ok",
                           npv_liability |-> npv_accumulate(prev.npv_liability,
                                                            discounted_cost),
                           yearly_data |-> Append(prev.yearly_data,
                               [Year |-> 2025 + year,
                                CarbonPrice |-> price,
                                AnnualCostM |-> RDiv(annual_cost, RInt(1000000)),
                                DiscountedCostM |-> RDiv(discounted_cost, RInt(1000000))])]
        \* the state of the loop after k passes; the state before a pass is
        \* computed once, as a value, before the pass is applied to it
        acc[k \in 0..range_len(analysis_years)] ==
            IF k = 0
            THEN [status |-> "ok", npv_liability |-> Zero, yearly_data |-> <<>>]
            ELSE CHOOSE next \in {body(prev, k - 1) : prev \in {acc[k - 1]}} : TRUE
        final == acc[range_len(analysis_years)]
    IN  IF final.status = "ok"
        THEN LET npv_liability_b == RDiv(final.npv_liability, RInt(1000000000))
             IN  [status |-> "ok",
                  npv_liability_b |-> npv_liability_b,
                  govt_exposure_b |-> RMul(npv_liability_b, R(country_data.govt_ownership, 100)),
                  yearly_data |-> final.yearly_data]
        ELSE [status |-> final.status]

(***************************************************************************)
(* The regional comparison loop of tab 2 (app.py 906-914).                 *)
(***************************************************************************)
\* Variant: no floor for a country without a carbon price.
comparison_price_no_floor(data) == data.carbon_price_2024

\* line 908: the price a country is compared at
comparison_price(data) ==
    IF data.carbon_price_2024 > 0 THEN data.carbon_price_2024 ELSE 15

regional_comparison(analysis_years, discount_rate) ==
    LET row(country) ==
            LET data == COUNTRY_DATA[country]
                price == comparison_price(data)
                liability == calculate_carbon_liability(country, price,
                                                        analysis_years, discount_rate)
            IN  [Country |-> country, price |-> price, liability |-> liability]
        comparison_data == [i \in 1..Len(CountryOrder) |-> row(CountryOrder[i])]
    IN  IF \E i \in 1..Len(CountryOrder) : comparison_data[i].liability.status # "ok"
        THEN [status |-> "ZeroDivisionError"]
        ELSE [status |-> "ok",
              comparison_data |->
                 [i \in 1..Len(CountryOrder) |->
                    [Country |-> comparison_data[i].Country,
                     price |-> comparison_data[i].price,
                     Liability |-> comparison_data[i].liability.value,
                     GovtExposure |-> RMul(comparison_data[i].liability.value,
                          R(COUNTRY_DATA[comparison_data[i].Country].govt_ownership, 100))]]]

(***************************************************************************)
(* simulate_price_convergence (app.py 530-576).                            *)
(***************************************************************************)
FirstYear == 2024
LastYear == 2050

\* line 532 and line 1028: years = list(range(2024, 2051))
SimYears == [i \in 1..(LastYear - FirstYear + 1) |-> FirstYear + i - 1]

\* lines 535-541
BaseTrajectories ==
    [c \in CountryNames |->
        CASE c = "Singapore" -> [y2024 |-> RInt(59), y2030 |-> RInt(75), y2045 |-> RInt(95)]
          [] c = "Thailand"  -> [y2024 |-> RInt(35), y2030 |-> RInt(50), y2045 |-> RInt(85)]
          [] c = "Indonesia" -> [y2024 |-> RInt(25), y2030 |-> RInt(35), y2045 |-> RInt(75)]
          [] c = "Malaysia"  -> [y2024 |-> RInt(0),  y2030 |-> RInt(15), y2045 |-> RInt(70)]
          [] c = "Vietnam"   -> [y2024 |-> RInt(20), y2030 |-> RInt(40), y2045 |-> RInt(80)]]

\* Variant: a scenario scales the 2030 anchor only.
scenario_factors_2030_only(scenario) ==
    IF scenario = "accelerated" THEN [y2030 |-> R(12, 10), y2045 |-> One]
    ELSE IF scenario = "delayed" THEN [y2030 |-> R(8, 10), y2045 |-> One]
    ELSE [y2030 |-> One, y2045 |-> One]

\* lines 543-552: the scenario's factors for the 2030 and the 2045 anchor;
\* any other scenario name takes neither branch
scenario_factors(scenario) ==
    IF scenario = "accelerated" THEN [y2030 |-> R(12, 10), y2045 |-> R(11, 10)]
    ELSE IF scenario = "delayed" THEN [y2030 |-> R(8, 10), y2045 |-> R(9, 10)]
    ELSE [y2030 |-> One, y2045 |-> One]

scale_trajectories(trajectories, scenario) ==
    LET f == scenario_factors(scenario)
    IN  [c \in DOMAIN trajectories |->
            [y2024 |-> trajectories[c].y2024,
             y2030 |-> RMul(trajectories[c].y2030, f.y2030),
             y2045 |-> RMul(trajectories[c].y2045, f.y2045)]]

\* Variant: the line runs from the end anchor back to the start anchor.
interpolate_reversed(a, b, num, den) ==
    LET progress == R(num, den)
    IN  RAdd(b, RMul(RSub(a, b), progress))

\* lines 562-563, 566-567 and 1039-1040: progress = num / den and
\* a + (b - a) * progress
interpolate(a, b, num, den) ==
    LET progress == R(num, den)
    IN  RAdd(a, RMul(RSub(b, a), progress))

\* Variant: the first segment is taken to span 5 years.
convergence_price_short_span(prices, year) ==
    IF year <= 2024 THEN prices.y2024
    ELSE IF year <= 2030 THEN interpolate(prices.y2024, prices.y2030, year - 2024, 5)
    ELSE IF year <= 2045 THEN interpolate(prices.y2030, prices.y2045, year - 2030, 15)
    ELSE prices.y2045

\* Variant: 3% growth continues after the 2045 anchor.
convergence_price_compounding(prices, year) ==
    IF year <= 2024 THEN prices.y2024
    ELSE IF year <= 2030 THEN interpolate(prices.y2024, prices.y2030, year - 2024, 6)
    ELSE IF year <= 2045 THEN interpolate(prices.y2030, prices.y2045, year - 2030, 15)
    ELSE RMul(prices.y2045, RPow(R(103, 100), year - 2045))

\* Variant: the second segment is taken to span 20 years.
convergence_price_long_span(prices, year) ==
    IF year <= 2024 THEN prices.y2024
    ELSE IF year <= 2030 THEN interpolate(prices.y2024, prices.y2030, year - 2024, 6)
    ELSE IF year <= 2045 THEN interpolate(prices.y2030, prices.y2045, year - 2030, 20)
    ELSE prices.y2045

\* lines 558-569: one country's price in one year
convergence_price(prices, year) ==
    IF year <= 2024 THEN prices.y2024
    ELSE IF year <= 2030 THEN interpolate(prices.y2024, prices.y2030, year - 2024, 6)
    ELSE IF year <= 2045 THEN interpolate(prices.y2030, prices.y2045, year - 2030, 15)
    ELSE prices.y2045

RECURSIVE RMaxOf(_)
RMaxOf(S) ==
    LET x == CHOOSE v \in S : TRUE
    IN  IF S = {x} THEN x
        ELSE LET m == RMaxOf(S \ {x}) IN IF RLe(m, x) THEN x ELSE m

RECURSIVE RMinOf(_)
RMinOf(S) ==
    LET x == CHOOSE v \in S : TRUE
    IN  IF S = {x} THEN x
        ELSE LET m == RMinOf(S \ {x}) IN IF RLe(x, m) THEN x ELSE m

\* Variant: every price of the row takes part, a zero minimum giving 0.
row_spread_all_prices(row) ==
    LET active_prices == {row[c] : c \in DOMAIN row}
    IN  IF RLt(Zero, RMinOf(active_prices))
        THEN [status |-> "ok", value |-> RDiv(RMaxOf(active_prices), RMinOf(active_prices))]
        ELSE [status |-> "ok", value |-> Zero]

\* lines 572-573: min() of an empty list raises ValueError
row_spread(row) ==
    LET active_prices == {row[c] : c \in {k \in DOMAIN row : RLt(Zero, row[k])}}
    IN  IF active_prices = {}
        THEN [status |-> "ValueError"]
        ELSE [status |-> "ok", value |-> RDiv(RMaxOf(active_prices), RMinOf(active_prices))]

\* lines 554-576 for a given table of anchors
simulate_rows(trajectories) ==
    LET row(year) == [c \in DOMAIN trajectories |-> convergence_price(trajectories[c], year)]
        rows == [i \in 1..Len(SimYears) |->
                    [year |-> SimYears[i], prices |-> row(SimYears[i]),
                     spread |-> row_spread(row(SimYears[i]))]]
    IN  IF \E i \in 1..Len(SimYears) : rows[i].spread.status # "ok"
        THEN [status |-> "ValueError"]
        ELSE [status |-> "ok",
              rows |-> [i \in 1..Len(SimYears) |->
                          [year |-> rows[i].year, prices |-> rows[i].prices,
                           spread |-> rows[i].spread.value]]]

\* Variant: the anchor table is a module-level dict that every call reuses.
fresh_trajectories_shared(left_behind) == left_behind

\* line 535: the call builds its anchor table anew from the literal,
\* whatever table an earlier call left behind
fresh_trajectories(left_behind) == BaseTrajectories

\* lines 535-552: the anchor table the call works on
scaled_trajectories(scenario) ==
    scale_trajectories(fresh_trajectories(last_trajectories), scenario)

simulate_price_convergence(scenario) == simulate_rows(scaled_trajectories(scenario))

(***************************************************************************)
(* The integration metrics panel of the convergence tab (app.py 1427-1448) *)
(***************************************************************************)
\* Displayed figures are carried in tenths: "4.0x" is 40.
MaxTenths == 1000

\* f"{x:.1f}": x rounded to one decimal, a tie going to the even digit
format_1f(x) ==
    LET ten_x == RMul(x, RInt(10))
        below == CHOOSE k \in 0..MaxTenths :
                    RLe(RInt(k), ten_x) /\ RLt(ten_x, RInt(k + 1))
        twice_rest == RMul(RSub(ten_x, RInt(below)), RInt(2))
    IN  IF RLt(twice_rest, One) THEN below
        ELSE IF RLt(One, twice_rest) THEN below + 1
        ELSE IF below % 2 = 0 THEN below ELSE below + 1

\* lines 1429-1448: the 2024 and 2030 figures are literals of the markup,
\* the 2045 figure is the simulated spread of 2045, and the panel always
\* shows the convergence tick
integration_metrics_panel(conv_scenario, rows) ==
    LET final_spread == rows[2045 - FirstYear + 1].spread
    IN  [scenario |-> conv_scenario,
         spread_2024 |-> 40,
         spread_2030 |-> 25,
         spread_2045 |-> format_1f(final_spread),
         convergence_achieved |-> TRUE]

\* lines 1365-1448: the simulation of the selected scenario and its panel
convergence_tab(conv_scenario) ==
    LET convergence_df == simulate_price_convergence(conv_scenario)
    IN  IF convergence_df.status # "ok"
        THEN convergence_df
        ELSE [status |-> "ok", rows |-> convergence_df.rows,
              panel |-> integration_metrics_panel(conv_scenario, convergence_df.rows)]

(***************************************************************************)
(* The price trajectory comparison of tab 3 (app.py 1028-1046).            *)
(***************************************************************************)
\* line 1032
trajectory_base(data) ==
    IF data.carbon_price_2024 > 0 THEN data.carbon_price_2024 ELSE 15

\* Variant: the price is held at the 2030 target after 2030.
trajectory_price_flat(base, target_2030, year) ==
    IF year <= 2030
    THEN interpolate(RInt(base), RInt(target_2030), year - 2024, 6)
    ELSE RInt(target_2030)

\* lines 1037-1043: one country's price in one year
trajectory_price(base, target_2030, year) ==
    IF year <= 2030
    THEN interpolate(RInt(base), RInt(target_2030), year - 2024, 6)
    ELSE RMul(RInt(target_2030), RPow(R(103, 100), year - 2030))

trajectory_comparison ==
    [status |-> "ok",
     trajectories |->
        [c \in DOMAIN COUNTRY_DATA |->
            [i \in 1..Len(SimYears) |->
                trajectory_price(trajectory_base(COUNTRY_DATA[c]),
                                 COUNTRY_DATA[c].carbon_price_2030, SimYears[i])]]]

(***************************************************************************)
(* get_divergence_metrics (app.py 436-446), as a function of the country   *)
(* table it reads.                                                         *)
(***************************************************************************)
MaxInt(S) == CHOOSE x \in S : \A y \in S : y <= x
MinInt(S) == CHOOSE x \in S : \A y \in S : x <= y

\* Variant: the prices are not filtered.
divergence_prices_unfiltered(data) == {data[c].carbon_price_2024 : c \in DOMAIN data}

\* line 438: the 2024 prices that are > 0
divergence_prices(data) ==
    {data[c].carbon_price_2024 : c \in {k \in DOMAIN data : data[k].carbon_price_2024 > 0}}

\* lines 439-446; min() of an empty list raises ValueError
divergence_metrics(data) ==
    LET prices == divergence_prices(data)
        years == {data[c].ets_launch_year : c \in DOMAIN data}
    IN  IF prices = {} \/ {p \in prices : p > 0} = {}
        THEN [status |-> "ValueError"]
        ELSE [status |-> "ok",
              timeline_spread |-> MaxInt(years) - MinInt(years),
              price_spread |-> IF MinInt(prices) > 0
                               THEN [inf |-> FALSE,
                                     value |-> RDiv(RInt(MaxInt(prices)), RInt(MinInt(prices)))]
                               ELSE [inf |-> TRUE, value |-> Zero],
              max_price |-> MaxInt(prices),
              min_price |-> MinInt({p \in prices : p > 0})]

get_divergence_metrics == divergence_metrics(COUNTRY_DATA)

(***************************************************************************)
(* calculate_integration_roi (app.py 475-495).                             *)
(***************************************************************************)
\* lines 293-299: the amount_m column
InitialInvestmentRequirements ==
    << [component |-> "MRV Infrastructure", amount_m |-> 85],
       [component |-> "Registry Systems", amount_m |-> 45],
       [component |-> "Capacity Building", amount_m |-> 35],
       [component |-> "Market Infrastructure", amount_m |-> 40],
       [component |-> "Coordination Body", amount_m |-> 24] >>

RECURSIVE SumSeq(_)
SumSeq(q) == IF q = <<>> THEN 0 ELSE Head(q) + SumSeq(Tail(q))

\* Variant: the one-time benefit is left out.
roi_total_benefits_recurring_only(annual_savings, years, climate_benefits_npv) ==
    annual_savings * years

\* line 486
roi_total_benefits(annual_savings, years, climate_benefits_npv) ==
    annual_savings * years + climate_benefits_npv

\* lines 477-495 as a function of the investment list read
integration_roi(requirements) ==
    LET total_investment ==
            SumSeq([i \in 1..Len(requirements) |-> requirements[i].amount_m])
        annual_operational_savings == 18
        annual_market_efficiency == 50
        climate_benefits_npv == 200
        years == 10
        annual_savings == annual_operational_savings + annual_market_efficiency
        total_benefits == roi_total_benefits(annual_savings, years, climate_benefits_npv)
    IN  IF total_investment = 0 \/ annual_savings = 0
        THEN [status |-> "ZeroDivisionError"]
        ELSE [status |-> "ok",
              total_investment |-> total_investment,
              total_benefits |-> total_benefits,
              benefit_cost_ratio |-> R(total_benefits, total_investment),
              annual_savings |-> annual_savings,
              payback_years |-> R(total_investment, annual_savings)]

calculate_integration_roi == integration_roi(INVESTMENT_REQUIREMENTS)

(***************************************************************************)
(* get_phase_progress (app.py 498-527).                                    *)
(***************************************************************************)
\* Variant: the second phase starts a year before the first one ends.
phases_overlapping ==
    << [phase |-> "Phase 1", start |-> 2025, end |-> 2028, name |-> "Foundation"],
       [phase |-> "Phase 2", start |-> 2027, end |-> 2035, name |-> "Convergence"],
       [phase |-> "Phase 3", start |-> 2035, end |-> 2045, name |-> "Full Integration"] >>

\* lines 500-504
phases ==
    << [phase |-> "Phase 1", start |-> 2025, end |-> 2028, name |-> "Foundation"],
       [phase |-> "Phase 2", start |-> 2028, end |-> 2035, name |-> "Convergence"],
       [phase |-> "Phase 3", start |-> 2035, end |-> 2045, name |-> "Full Integration"] >>

\* Variant: a phase is complete only after its end year.
phase_result_late_complete(info, current_year) ==
    LET outcome ==
            IF current_year < info.start
            THEN [progress |-> RInt(0), status |-> "Not Started"]
            ELSE IF current_year > info.end
            THEN [progress |-> RInt(100), status |-> "Complete"]
            ELSE [progress |-> RMul(R(current_year - info.start, info.end - info.start),
                                     RInt(100)),
                  status |-> "In Progress"]
    IN  [phase |-> info.phase, name |-> info.name, start |-> info.start,
         end |-> info.end, progress |-> outcome.progress, status |-> outcome.status]

\* lines 508-525: the entry appended for one phase
phase_result(info, current_year) ==
    LET outcome ==
            IF current_year < info.start
            THEN [progress |-> RInt(0), status |-> "Not Started"]
            ELSE IF current_year >= info.end
            THEN [progress |-> RInt(100), status |-> "Complete"]
            ELSE [progress |-> RMul(R(current_year - info.start, info.end - info.start),
                                     RInt(100)),
                  status |-> "In Progress"]
    IN  [phase |-> info.phase, name |-> info.name, start |-> info.start,
         end |-> info.end, progress |-> outcome.progress, status |-> outcome.status]

get_phase_progress(current_year) ==
    [status |-> "ok",
     results |-> [i \in 1..Len(phases) |-> phase_result(phases[i], current_year)]]

(***************************************************************************)
(* The refinery list (app.py 239-274) and its readers.                     *)
(***************************************************************************)
Refinery(country, name, capacity_kbpd, govt_owned, age_years, complexity) ==
    [country |-> country, name |-> name, capacity_kbpd |-> capacity_kbpd,
     govt_owned |-> govt_owned, age_years |-> age_years, complexity |-> complexity]

InitialRefineryData ==
    << Refinery("Singapore", "ExxonMobil Jurong", 592, FALSE, 55, "High"),
       Refinery("Singapore", "Shell Pulau Bukom", 500, FALSE, 62, "High"),
       Refinery("Singapore", "SRC Jurong Island", 420, TRUE, 18, "High"),
       Refinery("Thailand", "Thai Oil Sriracha", 275, TRUE, 58, "High"),
       Refinery("Thailand", "IRPC Rayong", 215, TRUE, 42, "Medium"),
       Refinery("Thailand", "Star Petroleum Map Ta Phut", 165, TRUE, 28, "High"),
       Refinery("Thailand", "ESSO Sriracha", 174, FALSE, 55, "Medium"),
       Refinery("Thailand", "Bangchak Bangkok", 120, FALSE, 40, "Medium"),
       Refinery("Thailand", "PTT GC Rayong", 291, TRUE, 12, "High"),
       Refinery("Indonesia", "Pertamina Cilacap", 348, TRUE, 48, "High"),
       Refinery("Indonesia", "Pertamina Balikpapan", 260, TRUE, 102, "Medium"),
       Refinery("Indonesia", "Pertamina Dumai", 170, TRUE, 52, "Medium"),
       Refinery("Indonesia", "Pertamina Balongan", 125, TRUE, 30, "High"),
       Refinery("Indonesia", "Pertamina Plaju", 118, TRUE, 89, "Low"),
       Refinery("Indonesia", "Pertamina Kasim", 10, TRUE, 25, "Low"),
       Refinery("Indonesia", "Trans Pacific Tuban", 100, TRUE, 18, "Medium"),
       Refinery("Indonesia", "Pertamina Sungai Pakning", 50, TRUE, 55, "Low"),
       Refinery("Malaysia", "Petronas RAPID Pengerang", 300, TRUE, 5, "High"),
       Refinery("Malaysia", "Petronas Melaka I", 100, TRUE, 30, "Medium"),
       Refinery("Malaysia", "Petronas Melaka II", 100, TRUE, 25, "Medium"),
       Refinery("Malaysia", "Petronas Kertih", 47, TRUE, 40, "Low"),
       Refinery("Malaysia", "Hengyuan Port Dickson", 156, FALSE, 60, "Medium"),
       Refinery("Vietnam", "Nghi Son", 200, TRUE, 6, "High"),
       Refinery("Vietnam", "Dung Quat", 130, TRUE, 15, "Medium"),
       Refinery("Vietnam", "Long Son (planned)", 200, TRUE, 0, "High") >>

\* lines 1156-1159: the refineries of the selected countries and complexities
filtered_refineries(country_filter, complexity_filter) ==
    SelectSeq(REFINERY_DATA,
              LAMBDA r : r.country \in country_filter /\ r.complexity \in complexity_filter)

(***************************************************************************)
(* The milestone list (app.py 277-290) and the timeline built from it      *)
(* (app.py 1281-1292).                                                     *)
(***************************************************************************)
Milestone(phase, year, milestone, status) ==
    [phase |-> phase, year |-> year, milestone |-> milestone, status |-> status]

InitialIntegrationMilestones ==
    << Milestone("Phase 1", 2025, "ASEAN Carbon Coordination Body Launch", "Pending"),
       Milestone("Phase 1", 2025, "Malaysia Policy Decision Deadline", "Critical"),
       Milestone("Phase 1", 2027, "MRV Standards Harmonization Complete", "Pending"),
       Milestone("Phase 1", 2028, "Singapore-Thailand Bilateral Linkage", "Pending"),
       Milestone("Phase 2", 2030, "All Countries Mandatory Pricing", "Pending"),
       Milestone("Phase 2", 2030, "Informal $20/t Price Floor", "Pending"),
       Milestone("Phase 2", 2032, "Indonesia Joins Linkage", "Pending"),
       Milestone("Phase 2", 2032, "Malaysia Integration (if committed)", "Conditional"),
       Milestone("Phase 2", 2035, "$40/t Price Floor Binding", "Pending"),
       Milestone("Phase 3", 2035, "Vietnam Tier 1 Graduation", "Pending"),
       Milestone("Phase 3", 2040, "Price Spread Narrows to 1.5x", "Pending"),
       Milestone("Phase 3", 2045, "Single ASEAN Carbon Market ($70-95/t)", "Pending") >>

\* line 1292, str.contains('Malaysia'): the milestone texts with that word
contains_Malaysia(milestone) ==
    milestone \in {"Malaysia Policy Decision Deadline", "Malaysia Integration (if committed)"}

BaselineScenario == "Baseline (Malaysia Commits Q3 2025)"
DelayedScenario == "Delayed (Malaysia Commits 2027+)"

\* line 1290, "Delayed" in scenario
is_delayed(scenario) == scenario = DelayedScenario

\* lines 1288-1292: the data frame built from the list and shifted by 5
\* years on the Malaysia rows under the delayed scenario
milestones_df(scenario) ==
    [i \in 1..Len(INTEGRATION_MILESTONES) |->
        IF is_delayed(scenario) /\ contains_Malaysia(INTEGRATION_MILESTONES[i].milestone)
        THEN [INTEGRATION_MILESTONES[i] EXCEPT !.year = @ + 5]
        ELSE INTEGRATION_MILESTONES[i]]

\* Variant: the data frame shares the list's rows, so the shift lands in the
\* list.
milestones_after_timeline_shared(list, frame) == frame

\* line 1288: pd.DataFrame copies the rows, so a write to the frame leaves
\* the list as it was
milestones_after_timeline(list, frame) == list

(***************************************************************************)
(* The Malaysia countdown (app.py 467-472) and its banner (app.py          *)
(* 1460-1472).  An instant is a whole number of hours since 2025-01-01     *)
(* 00:00.                                                                  *)
(***************************************************************************)
HoursPerDay == 24
DaysPerYear == 365

\* The days of 2025 and of 2026 before the first of each month
DaysBeforeMonth == <<0, 31, 59, 90, 120, 151, 181, 212, 243, 273, 304, 334>>

\* datetime(year, month, day): midnight at the start of that day
datetime(year, month, day) ==
    ((year - 2025) * DaysPerYear + DaysBeforeMonth[month] + day - 1) * HoursPerDay

\* timedelta.days: the whole days of a difference, rounded down
timedelta_days(delta) == delta \div HoursPerDay

\* lines 467-472, with the clock reading as its input
get_malaysia_countdown(today) ==
    LET deadline == datetime(2025, 9, 30)
        delta == deadline - today
    IN  MaxInt({0, timedelta_days(delta)})

\* lines 1460-1472: the banner is drawn while the count is positive, in a
\* colour that depends on the count
countdown_banner(today) ==
    LET days_remaining == get_malaysia_countdown(today)
    IN  [status |-> "ok",
         today |-> today,
         days_remaining |-> days_remaining,
         banner_shown |-> days_remaining > 0,
         urgency_color |-> IF days_remaining > 180 THEN "#22C55E"
                           ELSE IF days_remaining > 90 THEN "#F59E0B"
                           ELSE "#EF4444"]

(***************************************************************************)
(* Inputs the operations are invoked with.                                 *)
(***************************************************************************)
PriceInputs == {0, 59}
\* half percents: 0%, 3%, 10%
EscalationInputs == {0, 6, 20}
CoverageInputs == {0, 80, 100}
\* half percents: -200%, -100%, -50%, 0%, 1%, 5%, 10%
RateInputs == {-400, -200, -100, 0, 2, 10, 20}
YearsInputs == 0..MaxYears
ScenarioInputs == {"baseline", "accelerated", "delayed", "custom"}
\* Clock readings: midnight and noon of days at and around the deadline and
\* around the days where the banner changes colour
DayOffsets == {-182, -181, -180, -92, -91, -90, -2, -1, 0, 1, 2}
NowInputs ==
    {datetime(2025, 9, 30) + d * HoursPerDay + h : d \in DayOffsets, h \in {0, 12}}
CurrentYearInputs == 2023..2047
\* 2024 prices of the tables and rows the divergence and spread code is run on
TablePriceInputs == {0, 20, 59}

(***************************************************************************)
(* The widgets of the sidebar (app.py 609-613) and of the calculator tab   *)
(* (app.py 796-811): smallest, largest and initial value.  Rates are in    *)
(* half percents, the step of their sliders.                               *)
(***************************************************************************)
Widget(min_value, max_value, value) ==
    [min_value |-> min_value, max_value |-> max_value, value |-> value]

\* Variant: the discount rate slider starts at -100%.
discount_rate_slider_from_minus_100 == Widget(-200, 20, 10)

\* line 610: st.slider("NPV Discount Rate (%)", 3.0, 10.0, 5.0, 0.5) / 100
discount_rate_slider == Widget(6, 20, 10)

\* line 613: st.slider("Years (2025 onwards)", 10, 30, 25)
analysis_years_slider == Widget(10, 30, 25)

\* lines 796-801
base_carbon_price_input(country_data) ==
    Widget(0, 200, IF country_data.carbon_price_2024 > 0
                   THEN country_data.carbon_price_2024 ELSE 25)

\* lines 803-806: st.slider("Annual Price Escalation (%)", 0.0, 10.0, 3.0, 0.5)
price_escalation_slider == Widget(0, 20, 6)

\* lines 808-811
coverage_slider(country_data) == Widget(0, 100, country_data.coverage_pct)

\* Every value a widget can be set to
WidgetRange(w) == w.min_value..w.max_value

\* The widget settings the calculator tab is evaluated with: the shortest
\* horizon, and every other widget at each of its ends with the price or the
\* coverage at zero.  Longer horizons, and a positive price together with a
\* positive coverage, are left to LiabilityCalculator and its horizons up to
\* MaxYears, exact sums over more years being out of reach.
TabSettingsTried(country_data) ==
    LET price == base_carbon_price_input(country_data)
        cover == coverage_slider(country_data)
        setting(p, e, c, d) ==
            [base_carbon_price |-> p, price_escalation |-> e, coverage |-> c,
             analysis_years |-> analysis_years_slider.min_value, discount_rate |-> d]
    IN  { setting(price.min_value, price_escalation_slider.min_value, cover.max_value,
                  discount_rate_slider.min_value),
          setting(price.min_value, price_escalation_slider.max_value, cover.min_value,
                  discount_rate_slider.max_value),
          setting(price.max_value, price_escalation_slider.max_value, cover.min_value,
                  discount_rate_slider.max_value),
          setting(price.max_value, price_escalation_slider.min_value, cover.min_value,
                  discount_rate_slider.min_value) }

\* Investment lists the ROI code is run on: the built-in amounts, amounts of
\* 0 and no item at all
InvestmentInputs ==
    { <<85, 45, 35, 40, 24>>, <<100, 129>>, <<0, 0, 0, 0, 0>>, <<0>>, <<>> }

\* An investment list with the given amounts
requirements_with_amounts(amounts) ==
    [i \in 1..Len(amounts) |-> [component |-> i, amount_m |-> amounts[i]]]

\* COUNTRY_DATA with other 2024 prices
table_with_prices(prices) ==
    [c \in DOMAIN COUNTRY_DATA |->
        [COUNTRY_DATA[c] EXCEPT !.carbon_price_2024 = prices[c]]]

\* One simulated row with the given prices
row_with_prices(prices) == [c \in DOMAIN prices |-> RInt(prices[c])]

(***************************************************************************)
(* The state machine.  A script run invokes an operation (pc names it,     *)
(* args holds its inputs, result what it produced); Repeat invokes a core  *)
(* function or the timeline again with the same inputs, keeping the        *)
(* earlier output in previous; Return ends the run.  last_trajectories is  *)
(* the anchor table the most recent simulate_price_convergence call built  *)
(* and scaled.                                                             *)
(* frames and cells belong to the concurrent invocations further below and *)
(* do not change here.                                                     *)
(***************************************************************************)
NoArgs == [op |-> "none"]
NoResult == [status |-> "none"]

Invocations == {1, 2}
IdleFrame == [pc |-> "idle"]
NoTable == [c \in {} |-> 0]

Init ==
    /\ COUNTRY_DATA = InitialCountryData
    /\ REFINERY_DATA = InitialRefineryData
    /\ INTEGRATION_MILESTONES = InitialIntegrationMilestones
    /\ INVESTMENT_REQUIREMENTS = InitialInvestmentRequirements
    /\ pc = "idle"
    /\ args = NoArgs
    /\ result = NoResult
    /\ last_trajectories = BaseTrajectories
    /\ previous = NoResult
    /\ frames = [t \in Invocations |-> IdleFrame]
    /\ cells = [t \in {0} \cup Invocations |-> NoTable]

LiabilityCalculator ==
    /\ pc = "idle"
    /\ \E selected_country \in DOMAIN COUNTRY_DATA, base_carbon_price \in PriceInputs,
          price_escalation \in EscalationInputs, coverage \in CoverageInputs,
          analysis_years \in YearsInputs, discount_rate \in RateInputs :
          /\ args' = [selected_country |-> selected_country,
                      base_carbon_price |-> base_carbon_price,
                      price_escalation |-> price_escalation,
                      coverage |-> coverage,
                      analysis_years |-> analysis_years,
                      discount_rate |-> discount_rate]
          /\ result' = liability_calculator(selected_country, base_carbon_price,
                            price_escalation, coverage, analysis_years, discount_rate)
    /\ pc' = "liability_calculator"
    /\ UNCHANGED <<reference_data, last_trajectories, previous, frames, cells>>

\* lines 609-613, 784-838: the calculator tab under the widgets' values
CalculatorTab ==
    /\ pc = "idle"
    /\ \E selected_country \in DOMAIN COUNTRY_DATA :
       \E w \in TabSettingsTried(COUNTRY_DATA[selected_country]) :
          /\ args' = [selected_country |-> selected_country,
                      base_carbon_price |-> w.base_carbon_price,
                      price_escalation |-> w.price_escalation,
                      coverage |-> w.coverage,
                      analysis_years |-> w.analysis_years,
                      discount_rate |-> w.discount_rate]
          /\ result' = liability_calculator(selected_country, w.base_carbon_price,
                            w.price_escalation, w.coverage, w.analysis_years,
                            w.discount_rate)
    /\ pc' = "calculator_tab"
    /\ UNCHANGED <<reference_data, last_trajectories, previous, frames, cells>>

RegionalComparison ==
    /\ pc = "idle"
    /\ \E analysis_years \in YearsInputs, discount_rate \in RateInputs :
          /\ args' = [analysis_years |-> analysis_years, discount_rate |-> discount_rate]
          /\ result' = regional_comparison(analysis_years, discount_rate)
    /\ pc' = "regional_comparison"
    /\ UNCHANGED <<reference_data, last_trajectories, previous, frames, cells>>

CallLiability ==
    /\ pc = "idle"
    /\ \E country \in DOMAIN COUNTRY_DATA, carbon_price \in PriceInputs,
          years \in YearsInputs, discount_rate \in RateInputs :
          /\ args' = [country |-> country, carbon_price |-> carbon_price,
                      years |-> years, discount_rate |-> discount_rate]
          /\ result' = calculate_carbon_liability(country, carbon_price, years, discount_rate)
    /\ pc' = "calculate_carbon_liability"
    /\ UNCHANGED <<reference_data, last_trajectories, previous, frames, cells>>

SimulateConvergence ==
    /\ pc = "idle"
    /\ \E scenario \in ScenarioInputs :
          /\ args' = [scenario |-> scenario]
          /\ last_trajectories' = scaled_trajectories(scenario)
          /\ result' = simulate_price_convergence(scenario)
    /\ pc' = "simulate_price_convergence"
    /\ UNCHANGED <<reference_data, previous, frames, cells>>

\* lines 1365-1448: the convergence tab drawn for a selected scenario
ConvergenceTab ==
    /\ pc = "idle"
    /\ \E conv_scenario \in {"baseline", "accelerated", "delayed"} :
          /\ args' = [scenario |-> conv_scenario]
          /\ last_trajectories' = scaled_trajectories(conv_scenario)
          /\ result' = convergence_tab(conv_scenario)
    /\ pc' = "convergence_tab"
    /\ UNCHANGED <<reference_data, previous, frames, cells>>

TrajectoryComparison ==
    /\ pc = "idle"
    /\ args' = NoArgs
    /\ result' = trajectory_comparison
    /\ pc' = "trajectory_comparison"
    /\ UNCHANGED <<reference_data, last_trajectories, previous, frames, cells>>

\* lines 571-573 run on one row of prices
SpreadOfRow ==
    /\ pc = "idle"
    /\ \E prices \in [DOMAIN COUNTRY_DATA -> TablePriceInputs] :
          /\ args' = [prices |-> prices]
          /\ result' = row_spread(row_with_prices(prices))
    /\ pc' = "row_spread"
    /\ UNCHANGED <<reference_data, last_trajectories, previous, frames, cells>>

GetDivergenceMetrics ==
    /\ pc = "idle"
    /\ args' = NoArgs
    /\ result' = get_divergence_metrics
    /\ pc' = "get_divergence_metrics"
    /\ UNCHANGED <<reference_data, last_trajectories, previous, frames, cells>>

\* lines 438-446 run on a country table with other 2024 prices
DivergenceOfTable ==
    /\ pc = "idle"
    /\ \E prices \in [DOMAIN COUNTRY_DATA -> TablePriceInputs] :
          /\ args' = [prices |-> prices]
          /\ result' = divergence_metrics(table_with_prices(prices))
    /\ pc' = "divergence_metrics"
    /\ UNCHANGED <<reference_data, last_trajectories, previous, frames, cells>>

CallIntegrationROI ==
    /\ pc = "idle"
    /\ args' = NoArgs
    /\ result' = calculate_integration_roi
    /\ pc' = "calculate_integration_roi"
    /\ UNCHANGED <<reference_data, last_trajectories, previous, frames, cells>>

\* lines 477-495 run on an investment list with other amounts
ROIOfTable ==
    /\ pc = "idle"
    /\ \E amounts \in InvestmentInputs :
          /\ args' = [amounts |-> amounts]
          /\ result' = integration_roi(requirements_with_amounts(amounts))
    /\ pc' = "integration_roi"
    /\ UNCHANGED <<reference_data, last_trajectories, previous, frames, cells>>

GetPhaseProgress ==
    /\ pc = "idle"
    /\ \E current_year \in CurrentYearInputs :
          /\ args' = [current_year |-> current_year]
          /\ result' = get_phase_progress(current_year)
    /\ pc' = "get_phase_progress"
    /\ UNCHANGED <<reference_data, last_trajectories, previous, frames, cells>>

\* lines 1142-1161: the refinery explorer's filter
RefineryExplorer ==
    /\ pc = "idle"
    /\ \E country_filter \in SUBSET DOMAIN COUNTRY_DATA :
          /\ args' = [country_filter |-> country_filter,
                      complexity_filter |-> {"High", "Medium", "Low"}]
          /\ result' = [status |-> "ok",
                        refineries |-> filtered_refineries(country_filter,
                                                           {"High", "Medium", "Low"})]
    /\ pc' = "refinery_explorer"
    /\ UNCHANGED <<reference_data, last_trajectories, previous, frames, cells>>

\* lines 1281-1292: the milestone timeline under the selected scenario
MilestoneTimeline ==
    /\ pc = "idle"
    /\ \E scenario \in {BaselineScenario, DelayedScenario} :
          /\ args' = [scenario |-> scenario]
          /\ result' = [status |-> "ok", milestones |-> milestones_df(scenario)]
          /\ INTEGRATION_MILESTONES' =
                milestones_after_timeline(INTEGRATION_MILESTONES, milestones_df(scenario))
    /\ pc' = "milestone_timeline"
    /\ UNCHANGED <<COUNTRY_DATA, REFINERY_DATA, INVESTMENT_REQUIREMENTS, last_trajectories, previous, frames, cells>>

\* lines 1460-1472: the Malaysia tab is drawn at the clock reading today
MalaysiaCountdown ==
    /\ pc = "idle"
    /\ \E today \in NowInputs :
          /\ args' = [today |-> today]
          /\ result' = countdown_banner(today)
    /\ pc' = "malaysia_countdown"
    /\ UNCHANGED <<reference_data, last_trajectories, previous, frames, cells>>

\* The Malaysia tab is drawn again after the clock has advanced.
ClockAdvances ==
    /\ pc = "malaysia_countdown"
    /\ \E today \in NowInputs :
          /\ args.today < today
          /\ args' = [today |-> today]
          /\ result' = countdown_banner(today)
    /\ previous' = result
    /\ UNCHANGED <<reference_data, pc, last_trajectories, frames, cells>>

\* The operations that are invoked a second time: the five core functions
\* and the milestone timeline
RepeatedOperations ==
    {"calculate_carbon_liability", "simulate_price_convergence", "get_divergence_metrics",
     "calculate_integration_roi", "get_phase_progress", "milestone_timeline"}

\* The output of the operation op on the inputs a in the current state.
output_of(op, a) ==
    CASE op = "calculate_carbon_liability" ->
            calculate_carbon_liability(a.country, a.carbon_price, a.years, a.discount_rate)
      [] op = "simulate_price_convergence" -> simulate_price_convergence(a.scenario)
      [] op = "get_divergence_metrics" -> get_divergence_metrics
      [] op = "calculate_integration_roi" -> calculate_integration_roi
      [] op = "get_phase_progress" -> get_phase_progress(a.current_year)
      [] op = "milestone_timeline" ->
            [status |-> "ok", milestones |-> milestones_df(a.scenario)]

\* The running operation is invoked once more with the same inputs.
Repeat ==
    /\ pc \in RepeatedOperations
    /\ previous' = result
    /\ \E op \in {pc}, a \in {args} : result' = output_of(op, a)
    /\ last_trajectories' = IF pc = "simulate_price_convergence"
                            THEN scaled_trajectories(args.scenario)
                            ELSE last_trajectories
    /\ INTEGRATION_MILESTONES' =
          IF pc = "milestone_timeline"
          THEN milestones_after_timeline(INTEGRATION_MILESTONES, milestones_df(args.scenario))
          ELSE INTEGRATION_MILESTONES
    /\ UNCHANGED <<COUNTRY_DATA, REFINERY_DATA, INVESTMENT_REQUIREMENTS, pc, args, frames, cells>>

Return ==
    /\ pc # "idle"
    /\ pc' = "idle"
    /\ args' = NoArgs
    /\ result' = NoResult
    /\ previous' = NoResult
    /\ UNCHANGED <<reference_data, last_trajectories, frames, cells>>

Next ==
    \/ LiabilityCalculator
    \/ CalculatorTab
    \/ RegionalComparison
    \/ CallLiability
    \/ SimulateConvergence
    \/ ConvergenceTab
    \/ TrajectoryComparison
    \/ SpreadOfRow
    \/ GetDivergenceMetrics
    \/ DivergenceOfTable
    \/ CallIntegrationROI
    \/ ROIOfTable
    \/ GetPhaseProgress
    \/ RefineryExplorer
    \/ MilestoneTimeline
    \/ MalaysiaCountdown
    \/ ClockAdvances
    \/ Repeat
    \/ Return

Spec == Init /\ [][Next]_vars

(***************************************************************************)
(* Concurrent invocations.  Each invocation has a frame (its position, its *)
(* inputs, its loop index and what it has produced so far) and runs        *)
(* simulate_price_convergence or get_phase_progress statement by           *)
(* statement, interleaved with the other invocation.  cells holds the      *)
(* dicts the invocations work on.  The loop over the years (lines 554-574) *)
(* only reads the dict and is taken as one step.                           *)
(***************************************************************************)
ConcurrentYearInputs == {2024, 2026, 2029, 2040}

\* Variant: the trajectories dict is a module-level object shared by all
\* invocations.
trajectories_cell_shared(t) == 0

\* line 535: trajectories is a local variable, so each invocation has a dict
\* of its own
trajectories_cell(t) == t

Frame(position, op, input, i, out) ==
    [pc |-> position, op |-> op, input |-> input, i |-> i, out |-> out]

\* line 530: the call is entered
StartSimulate(t) ==
    /\ frames[t].pc = "idle"
    /\ \E scenario \in ScenarioInputs :
          frames' = [frames EXCEPT
                        ![t] = Frame("build", "simulate_price_convergence", scenario, 0, NoResult)]
    /\ UNCHANGED <<reference_data, pc, args, result, last_trajectories, previous, cells>>

\* lines 535-548: the dict is built; the scenario selects a scaling loop
BuildTrajectories(t) ==
    /\ frames[t].pc = "build"
    /\ cells' = [cells EXCEPT ![trajectories_cell(t)] = BaseTrajectories]
    /\ frames' = [frames EXCEPT
                    ![t].pc = IF frames[t].input \in {"accelerated", "delayed"}
                              THEN "scale" ELSE "rows",
                    ![t].i = 1]
    /\ UNCHANGED <<reference_data, pc, args, result, last_trajectories, previous>>

\* lines 545-547 and 550-552: one round of the scaling loop
ScaleCountry(t) ==
    /\ frames[t].pc = "scale"
    /\ LET country == CountryOrder[frames[t].i]
           f == scenario_factors(frames[t].input)
           cell == trajectories_cell(t)
       IN  cells' = [cells EXCEPT
                        ![cell][country].y2030 = RMul(@, f.y2030),
                        ![cell][country].y2045 = RMul(@, f.y2045)]
    /\ frames' = [frames EXCEPT
                    ![t].pc = IF frames[t].i = Len(CountryOrder) THEN "rows" ELSE "scale",
                    ![t].i = @ + 1]
    /\ UNCHANGED <<reference_data, pc, args, result, last_trajectories, previous>>

\* lines 554-576: the rows are computed from the dict and returned
ComputeRows(t) ==
    /\ frames[t].pc = "rows"
    /\ \E table \in {cells[trajectories_cell(t)]} :
          frames' = [frames EXCEPT ![t].pc = "done", ![t].out = simulate_rows(table)]
    /\ UNCHANGED <<reference_data, pc, args, result, last_trajectories, previous, cells>>

\* lines 498-505: the call is entered, results = []
StartPhaseProgress(t) ==
    /\ frames[t].pc = "idle"
    /\ \E current_year \in ConcurrentYearInputs :
          frames' = [frames EXCEPT
                        ![t] = Frame("phase", "get_phase_progress", current_year, 1, <<>>)]
    /\ UNCHANGED <<reference_data, pc, args, result, last_trajectories, previous, cells>>

\* lines 507-525: one round of the loop over the phases; line 527 after the
\* last
AppendPhase(t) ==
    /\ frames[t].pc = "phase"
    /\ LET results == Append(frames[t].out, phase_result(phases[frames[t].i], frames[t].input))
       IN  frames' = [frames EXCEPT
                        ![t].pc = IF frames[t].i = Len(phases) THEN "done" ELSE "phase",
                        ![t].i = @ + 1,
                        ![t].out = IF frames[t].i = Len(phases)
                                   THEN [status |-> "ok", results |-> results]
                                   ELSE results]
    /\ UNCHANGED <<reference_data, pc, args, result, last_trajectories, previous, cells>>

\* The caller has taken the returned value.
Finish(t) ==
    /\ frames[t].pc = "done"
    /\ frames' = [frames EXCEPT ![t] = IdleFrame]
    /\ UNCHANGED <<reference_data, pc, args, result, last_trajectories, previous, cells>>

NextConcurrent ==
    \E t \in Invocations :
        \/ StartSimulate(t)
        \/ BuildTrajectories(t)
        \/ ScaleCountry(t)
        \/ ComputeRows(t)
        \/ StartPhaseProgress(t)
        \/ AppendPhase(t)
        \/ Finish(t)

SpecConcurrent == Init /\ [][NextConcurrent]_vars

(***************************************************************************)
(* Properties of the liability engine.                                     *)
(***************************************************************************)
\* A country's annual emissions in Mt: capacity * 1000 * 0.14 * 365 / 10^6.
EmissionsMt(country) == R(COUNTRY_DATA[country].capacity_kbpd * 511, 10000)

InLiabilityCall == pc = "calculate_carbon_liability"
InCalculator == pc = "liability_calculator"

\* The helper's NPV for the current call's inputs at another discount rate.
LiabilityAt(r) ==
    calculate_carbon_liability(args.country, args.carbon_price, args.years, r)

\* The calculator's result for the current inputs at another discount rate.
CalculatorAt(r) ==
    liability_calculator(args.selected_country, args.base_carbon_price,
                         args.price_escalation, args.coverage, args.analysis_years, r)

HigherValidRates(r) == {r2 \in RateInputs : r2 > r /\ r2 > -RateDen}

\* C1 as stated: for base price >= 0, horizon >= 1 and discount rate > -1
\* the NPV is non-negative and STRICTLY smaller at every higher discount
\* rate, in the helper and in the calculator.
C1_StrictlyDecreasing ==
    /\ (InLiabilityCall /\ args.carbon_price >= 0 /\ args.years >= 1
            /\ args.discount_rate > -RateDen) =>
          /\ result.status = "ok"
          /\ RLe(Zero, result.value)
          /\ \A r2 \in HigherValidRates(args.discount_rate) :
                RLt(LiabilityAt(r2).value, result.value)
    /\ (InCalculator /\ args.base_carbon_price >= 0 /\ args.analysis_years >= 1
            /\ args.discount_rate > -RateDen) =>
          /\ result.status = "ok"
          /\ RLe(Zero, result.npv_liability_b)
          /\ \A r2 \in HigherValidRates(args.discount_rate) :
                RLt(CalculatorAt(r2).npv_liability_b, result.npv_liability_b)

\* C1 amended: under the same preconditions the NPV is non-negative and
\* never larger at a higher discount rate; it is strictly smaller when the
\* base price is positive and the horizon is at least 2 years (and, in the
\* calculator, the coverage is positive).
C1_NonIncreasing ==
    /\ (InLiabilityCall /\ args.carbon_price >= 0 /\ args.years >= 1
            /\ args.discount_rate > -RateDen) =>
          /\ result.status = "ok"
          /\ RLe(Zero, result.value)
          /\ \A r2 \in HigherValidRates(args.discount_rate) :
                /\ RLe(LiabilityAt(r2).value, result.value)
                /\ (args.carbon_price > 0 /\ args.years >= 2) =>
                      RLt(LiabilityAt(r2).value, result.value)
    /\ (InCalculator /\ args.base_carbon_price >= 0 /\ args.analysis_years >= 1
            /\ args.discount_rate > -RateDen) =>
          /\ result.status = "ok"
          /\ RLe(Zero, result.npv_liability_b)
          /\ \A r2 \in HigherValidRates(args.discount_rate) :
                /\ RLe(CalculatorAt(r2).npv_liability_b, result.npv_liability_b)
                /\ (args.base_carbon_price > 0 /\ args.analysis_years >= 2
                        /\ args.coverage > 0) =>
                      RLt(CalculatorAt(r2).npv_liability_b, result.npv_liability_b)

\* A call with a positive price and two or more years at a rate that has a
\* higher rate to compare with.
C1_Witness ==
    /\ InLiabilityCall
    /\ args.carbon_price > 0 /\ args.years >= 2 /\ args.discount_rate = -100
    /\ result.status = "ok"
    /\ RLt(Zero, result.value)
    /\ Cardinality(HigherValidRates(args.discount_rate)) >= 2

\* C2: row t of the breakdown (t = 0 is 2025) holds the base price escalated
\* t times and not discounted, the nominal cost = emissions * coverage *
\* that price, and the discounted cost = nominal cost / (1 + rate)^t.
C2_RowsEscalateThenDiscount ==
    (InCalculator /\ result.status = "ok") =>
        \A i \in 1..Len(result.yearly_data) :
            LET row == result.yearly_data[i]
                t == i - 1
            IN  /\ row.Year = 2025 + t
                /\ IF t = 0
                   THEN REq(row.CarbonPrice, RInt(args.base_carbon_price))
                   ELSE REq(row.CarbonPrice,
                            RMul(result.yearly_data[i - 1].CarbonPrice,
                                 R(RateDen + args.price_escalation, RateDen)))
                /\ REq(row.AnnualCostM,
                       RMul(RMul(EmissionsMt(args.selected_country),
                                 R(args.coverage, 100)), row.CarbonPrice))
                /\ REq(RMul(row.DiscountedCostM,
                            RPow(R(RateDen + args.discount_rate, RateDen), t)),
                       row.AnnualCostM)

\* A breakdown whose last row is both escalated and discounted.
C2_Witness ==
    /\ InCalculator /\ result.status = "ok"
    /\ args.analysis_years >= 3 /\ args.price_escalation > 0
    /\ args.discount_rate > 0 /\ args.coverage = 80 /\ args.base_carbon_price > 0
    /\ Len(result.yearly_data) >= 3
    /\ RLt(result.yearly_data[3].DiscountedCostM, result.yearly_data[3].AnnualCostM)
    /\ RLt(RInt(args.base_carbon_price), result.yearly_data[3].CarbonPrice)

RECURSIVE SumDiscountedM(_)
SumDiscountedM(rows) ==
    IF rows = <<>> THEN Zero
    ELSE RAdd(rows[Len(rows)].DiscountedCostM,
              SumDiscountedM(SubSeq(rows, 1, Len(rows) - 1)))

\* C3: the breakdown has one row per year of the horizon and its discounted
\* costs ($M) add up to the reported NPV ($B, so times 1000).
C3_BreakdownSumsToNPV ==
    (InCalculator /\ result.status = "ok") =>
        /\ Len(result.yearly_data) = args.analysis_years
        /\ REq(SumDiscountedM(result.yearly_data),
               RMul(result.npv_liability_b, RInt(1000)))

\* A breakdown of several rows with a positive NPV.
C3_Witness ==
    /\ InCalculator /\ result.status = "ok"
    /\ args.analysis_years >= 3
    /\ Len(result.yearly_data) = args.analysis_years
    /\ RLt(Zero, result.npv_liability_b)
    /\ RLt(result.yearly_data[1].DiscountedCostM,
           RMul(result.npv_liability_b, RInt(1000)))

\* C4: with a horizon of 1 the breakdown is the single row of the first
\* year, neither escalated nor discounted, and the NPV is that row's cost,
\* whatever the escalation and the discount rate; the helper agrees.
C4_SingleYearHorizon ==
    /\ (InCalculator /\ args.analysis_years = 1) =>
          LET first == RMul(RMul(EmissionsMt(args.selected_country),
                                 R(args.coverage, 100)),
                            RInt(args.base_carbon_price))
          IN  /\ result.status = "ok"
              /\ Len(result.yearly_data) = 1
              /\ REq(result.yearly_data[1].CarbonPrice, RInt(args.base_carbon_price))
              /\ REq(result.yearly_data[1].AnnualCostM, first)
              /\ REq(result.yearly_data[1].DiscountedCostM, first)
              /\ REq(RMul(result.npv_liability_b, RInt(1000)), first)
    /\ (InLiabilityCall /\ args.years = 1) =>
          /\ result.status = "ok"
          /\ REq(RMul(result.value, RInt(1000)),
                 RMul(EmissionsMt(args.country), RInt(args.carbon_price)))

\* A one-year calculation with both rates away from zero.
C4_Witness ==
    /\ InCalculator /\ args.analysis_years = 1
    /\ args.price_escalation > 0 /\ args.discount_rate > 0
    /\ args.base_carbon_price > 0 /\ args.coverage > 0
    /\ result.status = "ok"
    /\ RLt(Zero, result.npv_liability_b)

\* C5 as stated: a discount rate <= -1 or a horizon < 1 makes the liability
\* computation fail with InvalidParameter and return no NPV.
C5_InvalidParameterRaised ==
    (InLiabilityCall /\ (args.discount_rate <= -RateDen \/ args.years < 1)) =>
        result.status = "InvalidParameter"

\* C6 as stated: the helper that fills the regional comparison returns, for
\* the calculator's country, base price, horizon and discount rate, the NPV
\* the calculator computes.
C6_SameEngine ==
    (InCalculator /\ result.status = "ok") =>
        LET helper == calculate_carbon_liability(args.selected_country,
                          args.base_carbon_price, args.analysis_years, args.discount_rate)
        IN  /\ helper.status = "ok"
            /\ REq(helper.value, result.npv_liability_b)

(***************************************************************************)
(* Properties of the regional comparison.                                  *)
(***************************************************************************)
FloorPrice == 15

InComparison == pc = "regional_comparison"

\* C7: every country is compared at its own 2024 price, a country whose
\* 2024 price is 0 at the floor price; no row is priced at 0 and each row's
\* liability is the helper's NPV at the row's price.
C7_ComparisonPrices ==
    (InComparison /\ result.status = "ok") =>
        /\ Len(result.comparison_data) = Len(CountryOrder)
        /\ \A i \in 1..Len(result.comparison_data) :
              LET row == result.comparison_data[i]
                  default == COUNTRY_DATA[row.Country].carbon_price_2024
              IN  /\ row.Country = CountryOrder[i]
                  /\ row.price # 0
                  /\ (default > 0) => (row.price = default)
                  /\ (default = 0) => (row.price = FloorPrice)
                  /\ REq(row.Liability,
                         calculate_carbon_liability(row.Country, row.price,
                             args.analysis_years, args.discount_rate).value)

\* A comparison in which Malaysia (2024 price 0) carries a positive
\* liability computed at the floor.
C7_Witness ==
    /\ InComparison /\ result.status = "ok"
    /\ args.analysis_years >= 2 /\ args.discount_rate > 0
    /\ \E i \in 1..Len(result.comparison_data) :
          /\ result.comparison_data[i].Country = "Malaysia"
          /\ COUNTRY_DATA["Malaysia"].carbon_price_2024 = 0
          /\ result.comparison_data[i].price = FloorPrice
          /\ RLt(Zero, result.comparison_data[i].Liability)

(***************************************************************************)
(* Properties of the trajectory simulators.                                *)
(***************************************************************************)
InConvergence == pc = "simulate_price_convergence"
InTrajectories == pc = "trajectory_comparison"

\* The scenario's scaling of the 2030 and 2045 anchors, in percent.
AnchorPercent(scenario) ==
    CASE scenario = "accelerated" -> [y2030 |-> 120, y2045 |-> 110]
      [] scenario = "delayed" -> [y2030 |-> 80, y2045 |-> 90]
      [] OTHER -> [y2030 |-> 100, y2045 |-> 100]

\* The three anchors of a country under the current call's scenario.
Anchor2024(c) == BaseTrajectories[c].y2024
Anchor2030(c) == RMul(BaseTrajectories[c].y2030, R(AnchorPercent(args.scenario).y2030, 100))
Anchor2045(c) == RMul(BaseTrajectories[c].y2045, R(AnchorPercent(args.scenario).y2045, 100))

\* The result's row of a year.
RowOf(year) == result.rows[year - FirstYear + 1]

\* C8: the convergence path is the 2024 price up to 2024, the straight line
\* from the 2024 to the scaled 2030 anchor up to 2030 and the straight line
\* from the scaled 2030 to the scaled 2045 anchor up to 2045, through each
\* anchor; baseline Singapore is 59, 67, 75 in 2024, 2027, 2030.
C8_PiecewiseLinear ==
    (InConvergence /\ result.status = "ok") =>
        /\ Len(result.rows) = LastYear - FirstYear + 1
        /\ \A i \in 1..Len(result.rows) : result.rows[i].year = FirstYear + i - 1
        /\ \A c \in CountryNames :
              /\ REq(RowOf(2030).prices[c], Anchor2030(c))
              /\ REq(RowOf(2045).prices[c], Anchor2045(c))
              /\ \A i \in 1..Len(result.rows) :
                    LET Y == result.rows[i].year
                        price == result.rows[i].prices[c]
                    IN  /\ (Y <= 2024) => REq(price, Anchor2024(c))
                        /\ (2024 < Y /\ Y <= 2030) =>
                              REq(RMul(RInt(6), price),
                                  RAdd(RMul(RInt(2030 - Y), Anchor2024(c)),
                                       RMul(RInt(Y - 2024), Anchor2030(c))))
                        /\ (2030 < Y /\ Y <= 2045) =>
                              REq(RMul(RInt(15), price),
                                  RAdd(RMul(RInt(2045 - Y), Anchor2030(c)),
                                       RMul(RInt(Y - 2030), Anchor2045(c))))
        /\ (args.scenario = "baseline") =>
              /\ REq(RowOf(2024).prices["Singapore"], RInt(59))
              /\ REq(RowOf(2027).prices["Singapore"], RInt(67))
              /\ REq(RowOf(2030).prices["Singapore"], RInt(75))

\* The baseline simulation with Singapore half way to its 2030 anchor.
C8_Witness ==
    /\ InConvergence /\ result.status = "ok"
    /\ args.scenario = "baseline"
    /\ REq(RowOf(2027).prices["Singapore"], RInt(67))
    /\ REq(RowOf(2040).prices["Malaysia"], R(155, 3))

\* C9: in the convergence simulation every price of 2046..2050 is the
\* scenario's 2045 anchor price.
C9_FlatAfter2045 ==
    (InConvergence /\ result.status = "ok") =>
        /\ RowOf(LastYear).year = LastYear
        /\ \A i \in 1..Len(result.rows) : \A c \in CountryNames :
              (result.rows[i].year > 2045) =>
                  /\ REq(result.rows[i].prices[c], Anchor2045(c))
                  /\ REq(result.rows[i].prices[c], RowOf(2045).prices[c])

\* An accelerated simulation whose 2050 price is the scaled 2045 anchor.
C9_Witness ==
    /\ InConvergence /\ result.status = "ok"
    /\ args.scenario = "accelerated"
    /\ RowOf(2050).year = 2050
    /\ REq(RowOf(2050).prices["Singapore"], R(1045, 10))

\* C10: in the trajectory comparison a country's price runs on the straight
\* line from its base price to its 2030 target up to 2030 and from then on
\* is 1.03 times the price of the year before, so it never stays flat; the
\* convergence simulation repeats the price of the year before after 2045.
C10_ContinueGrowth ==
    /\ InTrajectories =>
          \A c \in CountryNames :
              LET prices == result.trajectories[c]
                  default == COUNTRY_DATA[c].carbon_price_2024
                  base == RInt(IF default > 0 THEN default ELSE FloorPrice)
                  target == RInt(COUNTRY_DATA[c].carbon_price_2030)
              IN  /\ Len(prices) = LastYear - FirstYear + 1
                  /\ \A i \in 1..Len(prices) :
                        LET Y == FirstYear + i - 1
                        IN  /\ (Y <= 2030) =>
                                  REq(RMul(RInt(6), prices[i]),
                                      RAdd(RMul(RInt(2030 - Y), base),
                                           RMul(RInt(Y - 2024), target)))
                            /\ (Y > 2030) =>
                                  /\ REq(RMul(RInt(100), prices[i]),
                                         RMul(RInt(103), prices[i - 1]))
                                  /\ RLt(prices[i - 1], prices[i])
    /\ (InConvergence /\ result.status = "ok") =>
          \A i \in 2..Len(result.rows) : \A c \in CountryNames :
              (result.rows[i].year > 2045) =>
                  REq(result.rows[i].prices[c], result.rows[i - 1].prices[c])

\* The trajectory comparison with Singapore's 2050 price 20 years of growth
\* above its 2030 target of 75 (75 * 1.03^20 is about 135.46).
C10_Witness ==
    /\ InTrajectories
    /\ REq(result.trajectories["Singapore"][7], RInt(75))
    /\ RLt(RInt(135), result.trajectories["Singapore"][27])
    /\ RLt(result.trajectories["Singapore"][27], RInt(136))

(***************************************************************************)
(* Scenarios against the baseline.                                         *)
(***************************************************************************)
\* What the baseline simulation returns.
BaselineRows == simulate_rows(scale_trajectories(BaseTrajectories, "baseline")).rows

BaselinePrice(c, year) == BaselineRows[year - FirstYear + 1].prices[c]

\* C11: for every country and every year after 2024 the accelerated price is
\* strictly above the baseline price and the delayed price strictly below
\* it; in 2024 the three scenarios give the same price.
C11_ScenarioOrdering ==
    (InConvergence /\ args.scenario \in {"accelerated", "delayed"}) =>
        /\ result.status = "ok"
        /\ \A c \in CountryNames :
              /\ REq(RowOf(FirstYear).prices[c], BaselinePrice(c, FirstYear))
              /\ \A year \in (FirstYear + 1)..LastYear :
                    IF args.scenario = "accelerated"
                    THEN RLt(BaselinePrice(c, year), RowOf(year).prices[c])
                    ELSE RLt(RowOf(year).prices[c], BaselinePrice(c, year))

\* An accelerated run whose 2050 Malaysia price is above the baseline's, and
\* which was invoked a second time.
C11_Witness ==
    /\ InConvergence
    /\ args.scenario = "accelerated"
    /\ previous # NoResult
    /\ RLt(BaselinePrice("Malaysia", LastYear), RowOf(LastYear).prices["Malaysia"])
    /\ REq(RowOf(FirstYear).prices["Malaysia"], Zero)

(***************************************************************************)
(* Repeated calls.                                                         *)
(***************************************************************************)
CoreFunctions ==
    {"calculate_carbon_liability", "get_divergence_metrics", "calculate_integration_roi",
     "get_phase_progress", "simulate_price_convergence"}

\* C12: whatever calls came before, a call of a core function invoked again
\* with the same inputs returns exactly what it returned before, and a
\* simulation returns what it returns from the literal anchors with the
\* scenario's factors applied once: the 2030 and 2045 prices are the scaled
\* anchors, never scaled twice.
C12_RepeatableCalls ==
    /\ (pc \in CoreFunctions /\ previous # NoResult) => result = previous
    /\ InConvergence =>
          /\ result = simulate_rows(scale_trajectories(BaseTrajectories, args.scenario))
          /\ \A c \in CountryNames :
                /\ REq(RowOf(2030).prices[c], Anchor2030(c))
                /\ REq(RowOf(2045).prices[c], Anchor2045(c))

\* An accelerated simulation invoked a second time: Singapore's 2030 price
\* is 75 * 1.2 = 90 both times.
C12_Witness ==
    /\ InConvergence
    /\ args.scenario = "accelerated"
    /\ previous # NoResult
    /\ previous = result
    /\ REq(RowOf(2030).prices["Singapore"], RInt(90))

(***************************************************************************)
(* The reference data.                                                     *)
(***************************************************************************)
\* C13: no operation changes the country table, the refinery list, the
\* milestone list or the investment list: whatever operations ran, under
\* whatever scenario, each still holds its initial content.
C13_ReferenceDataUnchanged ==
    /\ COUNTRY_DATA = InitialCountryData
    /\ REFINERY_DATA = InitialRefineryData
    /\ INTEGRATION_MILESTONES = InitialIntegrationMilestones
    /\ INVESTMENT_REQUIREMENTS = InitialInvestmentRequirements

\* The delayed milestone timeline was drawn twice: its Malaysia rows show
\* 2030 and 2037 while the list still says 2025 and 2032.
C13_Witness ==
    /\ pc = "milestone_timeline"
    /\ args.scenario = DelayedScenario
    /\ previous # NoResult
    /\ result.milestones[2].year = 2030
    /\ result.milestones[8].year = 2037
    /\ INTEGRATION_MILESTONES[2].year = 2025
    /\ INTEGRATION_MILESTONES[8].year = 2032

(***************************************************************************)
(* Concurrent invocations against the same invocations run alone.          *)
(***************************************************************************)
\* What a simulation returns when it runs alone, per scenario.
AloneSimulation ==
    [scenario \in ScenarioInputs |->
        simulate_rows(scale_trajectories(BaseTrajectories, scenario))]

\* What the operation returns when it runs alone.
AloneOutput(op, input) ==
    IF op = "simulate_price_convergence"
    THEN AloneSimulation[input]
    ELSE get_phase_progress(input)

\* C14: under every interleaving of two invocations of the core functions,
\* each invocation that has finished holds exactly what the operation
\* returns for its inputs when it runs alone.
C14_InterleavingIndependent ==
    \A t \in Invocations :
        frames[t].pc = "done" =>
            \A op \in {frames[t].op}, input \in {frames[t].input} :
                frames[t].out = AloneOutput(op, input)

\* An accelerated and a delayed simulation that ran interleaved, the one
\* finished while the other is inside its scaling loop: the finished one
\* holds Singapore's 2030 price of 90.
C14_Witness ==
    /\ frames[1].pc = "done"
    /\ frames[1].op = "simulate_price_convergence"
    /\ frames[1].input = "accelerated"
    /\ REq(frames[1].out.rows[2030 - FirstYear + 1].prices["Singapore"], RInt(90))
    /\ frames[2].pc = "scale"
    /\ frames[2].input = "delayed"
    /\ frames[2].i = 3

(***************************************************************************)
(* The spread of a year's prices.                                          *)
(***************************************************************************)
\* The prices of a row that are not exactly 0.
NonZeroPrices(prices) == {prices[c] : c \in {k \in DOMAIN prices : ~IsZero(prices[k])}}

\* spread is the largest of the prices P divided by the smallest.
IsSpreadOf(spread, P) ==
    \E hi \in P, lo \in P :
        /\ \A p \in P : RLe(p, hi) /\ RLe(lo, p)
        /\ REq(RMul(spread, lo), hi)

InSpreadOfRow == pc = "row_spread"

\* C15: the spread of a year is the largest divided by the smallest of that
\* year's prices that are not exactly 0, in every row of a simulation and
\* for every row the spread code is run on; countries priced at 0 take no
\* part.
C15_SpreadOverNonZeroPrices ==
    /\ (InConvergence /\ result.status = "ok") =>
          \A i \in 1..Len(result.rows) :
              IsSpreadOf(result.rows[i].spread, NonZeroPrices(result.rows[i].prices))
    /\ (InSpreadOfRow /\ result.status = "ok") =>
          IsSpreadOf(result.value, NonZeroPrices(row_with_prices(args.prices)))

\* The baseline simulation's 2024 row, where Malaysia is priced at 0: the
\* spread is 59 / 20.
C15_Witness ==
    /\ InConvergence
    /\ args.scenario = "baseline"
    /\ IsZero(RowOf(FirstYear).prices["Malaysia"])
    /\ REq(RowOf(FirstYear).spread, R(59, 20))

KnownScenarios == {"baseline", "accelerated", "delayed"}

\* C17: a simulation asked for a scenario name other than baseline,
\* accelerated and delayed fails with InvalidParameter and returns no
\* price paths.
C17_UnknownScenarioRejected ==
    (InConvergence /\ args.scenario \notin KnownScenarios) =>
        result.status = "InvalidParameter"

(***************************************************************************)
(* Divergence metrics.                                                     *)
(***************************************************************************)
InDivergence == pc \in {"get_divergence_metrics", "divergence_metrics"}

\* The country table the current divergence call read.
DivergenceTable ==
    IF pc = "divergence_metrics" THEN table_with_prices(args.prices) ELSE COUNTRY_DATA

\* C18: the divergence metrics give as timeline spread the latest minus the
\* earliest ETS launch year over all countries, and as maximum, minimum and
\* price spread the largest, the smallest and their ratio over the 2024
\* prices that are greater than 0; the built-in table gives 11 years, 59, 20
\* and 2.95.
C18_DivergenceMetrics ==
    /\ (InDivergence /\ result.status = "ok") =>
          LET T == DivergenceTable
              positive == {c \in DOMAIN T : T[c].carbon_price_2024 > 0}
          IN  /\ \E a \in DOMAIN T, b \in DOMAIN T :
                    /\ \A c \in DOMAIN T :
                          /\ T[c].ets_launch_year <= T[a].ets_launch_year
                          /\ T[b].ets_launch_year <= T[c].ets_launch_year
                    /\ result.timeline_spread = T[a].ets_launch_year - T[b].ets_launch_year
              /\ \E hi \in positive, lo \in positive :
                    /\ \A c \in positive :
                          /\ T[c].carbon_price_2024 <= T[hi].carbon_price_2024
                          /\ T[lo].carbon_price_2024 <= T[c].carbon_price_2024
                    /\ result.max_price = T[hi].carbon_price_2024
                    /\ result.min_price = T[lo].carbon_price_2024
                    /\ ~result.price_spread.inf
                    /\ REq(RMul(result.price_spread.value, RInt(result.min_price)),
                           RInt(result.max_price))
    /\ pc = "get_divergence_metrics" =>
          /\ result.status = "ok"
          /\ result.timeline_spread = 11
          /\ result.max_price = 59
          /\ result.min_price = 20
          /\ REq(result.price_spread.value, R(295, 100))

\* The metrics of the built-in table, where Malaysia's price of 0 is left
\* out of the minimum.
C18_Witness ==
    /\ pc = "get_divergence_metrics"
    /\ COUNTRY_DATA["Malaysia"].carbon_price_2024 = 0
    /\ result.status = "ok"
    /\ result.min_price = 20
    /\ result.timeline_spread = 11

InPhaseProgress == pc = "get_phase_progress"

\* C20: get_phase_progress returns one entry per phase, in phase order; an
\* entry has progress 0 and status 'Not Started' when the current year is
\* before the phase's start, progress 100 and status 'Complete' when it is
\* at or after the phase's end, and otherwise progress
\* (current year - start) / (end - start) * 100 and status 'In Progress';
\* phase 2025-2028 gives 33.33 in progress at 2026 and 100 complete at 2029.
C20_PhaseProgressRule ==
    InPhaseProgress =>
        /\ result.status = "ok"
        /\ Len(result.results) = 3
        /\ result.results[1].phase = "Phase 1" /\ result.results[1].start = 2025
        /\ result.results[1].end = 2028
        /\ result.results[2].phase = "Phase 2" /\ result.results[2].start = 2028
        /\ result.results[2].end = 2035
        /\ result.results[3].phase = "Phase 3" /\ result.results[3].start = 2035
        /\ result.results[3].end = 2045
        /\ \A i \in 1..Len(result.results) :
              LET r == result.results[i]
              IN  IF args.current_year < r.start
                  THEN IsZero(r.progress) /\ r.status = "Not Started"
                  ELSE IF args.current_year >= r.end
                  THEN REq(r.progress, RInt(100)) /\ r.status = "Complete"
                  ELSE /\ REq(RMul(r.progress, RInt(r.end - r.start)),
                              RInt((args.current_year - r.start) * 100))
                       /\ r.status = "In Progress"
        /\ args.current_year = 2026 =>
              /\ result.results[1].status = "In Progress"
              /\ RLt(R(3333, 100), result.results[1].progress)
              /\ RLt(result.results[1].progress, R(3334, 100))
        /\ args.current_year = 2029 =>
              /\ result.results[1].status = "Complete"
              /\ REq(result.results[1].progress, RInt(100))

\* The call for 2028: the first phase is complete at its end year, the
\* second in progress at 0 and the third not started.
C20_Witness ==
    /\ InPhaseProgress
    /\ args.current_year = 2028
    /\ result.results[1].status = "Complete"
    /\ result.results[2].status = "In Progress"
    /\ IsZero(result.results[2].progress)
    /\ result.results[3].status = "Not Started"

(***************************************************************************)
(* Integration ROI.                                                        *)
(***************************************************************************)
InROI == pc = "calculate_integration_roi"

\* The sum of the amounts of the investment list.
InvestmentTotal ==
    LET amount(i) == INVESTMENT_REQUIREMENTS[i].amount_m
        n == Len(INVESTMENT_REQUIREMENTS)
        partial[k \in 0..n] == IF k = 0 THEN 0 ELSE partial[k - 1] + amount(k)
    IN  partial[n]

\* C21: calculate_integration_roi returns the sum of the investment amounts
\* as total investment, annual savings * years + the one-time benefit as
\* total benefits (no compounding, no discounting), their quotient as
\* benefit-cost ratio and total investment / annual savings as payback; for
\* the built-in tables 229, 880, about 3.84 and about 3.37.
C21_IntegrationROI ==
    InROI =>
        /\ result.status = "ok"
        /\ result.total_investment = InvestmentTotal
        /\ result.total_benefits = result.annual_savings * 10 + 200
        /\ REq(RMul(result.benefit_cost_ratio, RInt(result.total_investment)),
               RInt(result.total_benefits))
        /\ REq(RMul(result.payback_years, RInt(result.annual_savings)),
               RInt(result.total_investment))
        /\ result.total_investment = 229
        /\ result.annual_savings = 68
        /\ result.total_benefits = 880
        /\ RLe(R(3835, 1000), result.benefit_cost_ratio)
        /\ RLt(result.benefit_cost_ratio, R(3845, 1000))
        /\ RLe(R(3365, 1000), result.payback_years)
        /\ RLt(result.payback_years, R(3375, 1000))

\* The ROI call has returned, with the ratio 880 / 229.
C21_Witness ==
    /\ InROI
    /\ result.status = "ok"
    /\ REq(result.benefit_cost_ratio, R(880, 229))
    /\ REq(result.payback_years, R(229, 68))

FlatTotal == RMul(RMul(RInt(args.carbon_price), EmissionsMt(args.country)), R(args.years, 1000))

\* The undiscounted total of the escalated annual costs, in $B.
EscalatedTotal ==
    LET cost(y) == RMul(RMul(RInt(args.carbon_price), RPow(R(103, 100), y)),
                        RMul(EmissionsMt(args.country), R(1, 1000)))
        partial[k \in 0..args.years] ==
            IF k = 0 THEN Zero ELSE RAdd(partial[k - 1], cost(k - 1))
    IN  partial[args.years]

InDiscountedCall ==
    /\ InLiabilityCall
    /\ args.carbon_price > 0
    /\ args.years >= 1
    /\ args.discount_rate > 0

InConvergenceTab == pc = "convergence_tab"

\* C24: the panel's 2024 and 2030 price spreads (4.0x and 2.5x) are the
\* spreads the simulation computes for 2024 and 2030 in the selected
\* scenario, as displayed with one decimal.
C24_PanelMatchesSimulation ==
    InConvergenceTab =>
        /\ result.panel.spread_2024 = 40
        /\ result.panel.spread_2030 = 25
        /\ result.panel.spread_2024 = format_1f(RowOf(2024).spread)
        /\ result.panel.spread_2030 = format_1f(RowOf(2030).spread)

SpreadTarget == R(15, 10)

\* C25: in the baseline, accelerated and delayed scenario the simulated
\* spread of 2045 is at or below the 1.5x target, where the panel shows
\* convergence as achieved.
C25_ConvergenceAchieved ==
    /\ InConvergenceTab =>
          /\ result.status = "ok"
          /\ result.panel.convergence_achieved
          /\ RLe(RowOf(2045).spread, SpreadTarget)
          /\ result.panel.spread_2045 <= 15
    /\ (InConvergence /\ args.scenario \in KnownScenarios) =>
          RLe(RowOf(2045).spread, SpreadTarget)

\* The delayed scenario's panel: the 2045 spread is 85.5 / 63 = 19 / 14,
\* shown as 1.4x.
C25_Witness ==
    /\ InConvergenceTab
    /\ args.scenario = "delayed"
    /\ REq(RowOf(2045).spread, R(19, 14))
    /\ result.panel.spread_2045 = 14
    /\ result.panel.convergence_achieved

(***************************************************************************)
(* The spread along the simulated path.                                    *)
(***************************************************************************)
InKnownConvergence == InConvergence /\ args.scenario \in KnownScenarios

\* C26 as stated: in every scenario the spread never increases from one
\* year to the next over 2024..2050 and is at least 1 in every year.
C26_SpreadNeverIncreases ==
    InKnownConvergence =>
        /\ \A year \in FirstYear..(LastYear - 1) :
              RLe(RowOf(year + 1).spread, RowOf(year).spread)
        /\ \A year \in FirstYear..LastYear : RLe(One, RowOf(year).spread)

\* C26 amended: in every scenario the spread is at least 1 in every year and
\* never increases from one year to the next over 2025..2050; from 2024 to
\* 2025 it rises, Malaysia's price of 0 being left out of the 2024 spread
\* only.
C26_SpreadNeverIncreasesFrom2025 ==
    InKnownConvergence =>
        /\ \A year \in (FirstYear + 1)..(LastYear - 1) :
              RLe(RowOf(year + 1).spread, RowOf(year).spread)
        /\ \A year \in FirstYear..LastYear : RLe(One, RowOf(year).spread)
        /\ RLt(RowOf(FirstYear).spread, RowOf(FirstYear + 1).spread)

\* The baseline path: 2.95 in 2024, above 24 in 2025, 5 in 2030 and 19/14
\* from 2045 on.
C26_Witness ==
    /\ InConvergence
    /\ args.scenario = "baseline"
    /\ REq(RowOf(2024).spread, R(295, 100))
    /\ RLt(RInt(24), RowOf(2025).spread)
    /\ REq(RowOf(2030).spread, RInt(5))
    /\ REq(RowOf(2050).spread, R(19, 14))

(***************************************************************************)
(* Phase progress as the current year advances.                            *)
(***************************************************************************)
StatusRank(status) ==
    CASE status = "Not Started" -> 0
      [] status = "In Progress" -> 1
      [] status = "Complete" -> 2

\* C27: for consecutive current years each phase's progress stays within
\* [0, 100] and does not decrease, its status only moves Not Started ->
\* In Progress -> Complete, at most one phase is In Progress in a year, and a
\* phase is Not Started as long as the preceding phase is not Complete.
C27_PhasesAdvanceInOrder ==
    InPhaseProgress =>
        \A current_year \in {args.current_year} :
            LET now == result.results
                later == get_phase_progress(current_year + 1).results
            IN  /\ \A i \in 1..Len(now) :
                      /\ RLe(Zero, now[i].progress)
                      /\ RLe(now[i].progress, RInt(100))
                      /\ RLe(now[i].progress, later[i].progress)
                      /\ StatusRank(now[i].status) <= StatusRank(later[i].status)
                /\ Cardinality({i \in 1..Len(now) : now[i].status = "In Progress"}) <= 1
                /\ \A i \in 2..Len(now) :
                      now[i - 1].status # "Complete" => now[i].status = "Not Started"

\* The year 2034: the second phase is in progress at 6/7 and the third not
\* started; a year later the second is complete and the third in progress.
C27_Witness ==
    /\ InPhaseProgress
    /\ args.current_year = 2034
    /\ result.results[1].status = "Complete"
    /\ result.results[2].status = "In Progress"
    /\ REq(result.results[2].progress, R(600, 7))
    /\ result.results[3].status = "Not Started"
    /\ get_phase_progress(2035).results[3].status = "In Progress"

(***************************************************************************)
(* What the widgets can supply.                                            *)
(***************************************************************************)
InCalculatorTab == pc = "calculator_tab"

\* Over the whole range of every widget the preconditions of the liability
\* computation hold, and no discount divisor of any year of any horizon is
\* zero.
WidgetRangesValid ==
    /\ \A discount_rate \in WidgetRange(discount_rate_slider) :
          /\ discount_rate > -RateDen
          /\ \A year \in 0..(analysis_years_slider.max_value - 1) :
                ~IsZero(discount_divisor(discount_rate, year))
    /\ \A analysis_years \in WidgetRange(analysis_years_slider) : analysis_years >= 1
    /\ \A price_escalation \in WidgetRange(price_escalation_slider) :
          price_escalation > -RateDen
    /\ \A c \in CountryNames :
          /\ \A base_carbon_price \in WidgetRange(base_carbon_price_input(InitialCountryData[c])) :
                base_carbon_price >= 0
          /\ \A coverage \in WidgetRange(coverage_slider(InitialCountryData[c])) :
                coverage >= 0 /\ coverage <= 100
          /\ InitialCountryData[c].govt_ownership >= 0
          /\ InitialCountryData[c].govt_ownership <= 100

\* C28: every value the sidebar and the calculator's widgets can supply
\* meets the preconditions of the liability computation (discount rate
\* above -100%, at least one year, coverage and ownership within 0..100%),
\* and the calculator run under widget values ends normally: no division by
\* zero and no invalid parameter.
C28_WidgetsMeetPreconditions ==
    /\ WidgetRangesValid
    /\ InCalculatorTab =>
          /\ args.discount_rate \in WidgetRange(discount_rate_slider)
          /\ args.discount_rate > -RateDen
          /\ args.analysis_years >= 1
          /\ args.coverage >= 0 /\ args.coverage <= 100
          /\ COUNTRY_DATA[args.selected_country].govt_ownership \in 0..100
          /\ result.status = "ok"
          /\ Len(result.yearly_data) = args.analysis_years
          /\ RLe(Zero, result.npv_liability_b)
          /\ RLe(result.govt_exposure_b, result.npv_liability_b)

\* The calculator run for Singapore at the largest price and escalation,
\* the largest discount rate and no coverage, over the ten years of the
\* shortest horizon: ten rows, the last of 2034 at a price above 200 and a
\* cost of zero.
C28_Witness ==
    /\ InCalculatorTab
    /\ args.selected_country = "Singapore"
    /\ args.base_carbon_price = 200
    /\ args.price_escalation = 20
    /\ args.coverage = 0
    /\ args.discount_rate = 20
    /\ args.analysis_years = 10
    /\ result.status = "ok"
    /\ Len(result.yearly_data) = 10
    /\ result.yearly_data[10].Year = 2034
    /\ RLt(RInt(200), result.yearly_data[10].CarbonPrice)
    /\ IsZero(result.npv_liability_b)

(***************************************************************************)
(* C29: milestone years and the phase windows.                             *)
(***************************************************************************)
\* The window of the phase a milestone is labelled with
PhaseWindow(label) == CHOOSE info \in {phases[k] : k \in 1..Len(phases)} : info.phase = label

InMilestoneTimeline == pc = "milestone_timeline" /\ result.status = "ok"

\* C29: in the baseline and in the delayed timeline, where exactly the
\* milestones naming Malaysia are moved five years later, the year shown for
\* every milestone lies within the start..end window of the phase the
\* milestone is labelled with.
C29_MilestonesWithinPhaseWindows ==
    InMilestoneTimeline =>
        /\ Len(result.milestones) = Len(INTEGRATION_MILESTONES)
        /\ \A i \in 1..Len(result.milestones) :
              LET shown == result.milestones[i]
                  listed == INTEGRATION_MILESTONES[i]
              IN  /\ shown.year =
                        IF args.scenario = DelayedScenario /\ contains_Malaysia(listed.milestone)
                        THEN listed.year + 5
                        ELSE listed.year
                  /\ shown.phase = listed.phase
                  /\ PhaseWindow(shown.phase).start <= shown.year
                  /\ shown.year <= PhaseWindow(shown.phase).end

(***************************************************************************)
(* C30: the Malaysia countdown as the clock advances.                      *)
(***************************************************************************)
InCountdown == pc = "malaysia_countdown" /\ result.status = "ok"

\* The instant the deadline day, 30 September 2025, begins
DeadlineInstant == datetime(2025, 9, 30)

\* C30: as the clock advances the countdown is never negative and never
\* increases; it is positive at every instant before 30 September 2025; and
\* from the deadline onward it is 0 and the banner is not shown.
C30_CountdownToDeadline ==
    InCountdown =>
        /\ result.days_remaining >= 0
        /\ (previous # NoResult /\ previous.today <= result.today)
              => result.days_remaining <= previous.days_remaining
        /\ result.today < DeadlineInstant => result.days_remaining > 0
        /\ result.today >= DeadlineInstant
              => (result.days_remaining = 0 /\ ~result.banner_shown)

====
